---- MODULE Spec2Model ----
(***************************************************************************)
(* jpc-fundraise: the donation ledger written by the Stripe webhook, the   *)
(* goal/milestone store written by the edit page, and the progress         *)
(* calculator of the public goal page.                                     *)
(*                                                                         *)
(* Money is held in hundredths of a currency unit: the model's integer n   *)
(* stands for the amount n/100 of the code (the webhook's                  *)
(* session.amount_total / 100, a milestone's targetAmount), and sums are   *)
(* exact sums of hundredths.                                               *)
(***************************************************************************)
EXTENDS Integers, Sequences, FiniteSets, TLC

VARIABLES
    goals,          \* Goal table: goal id -> [targetAmount, editPassword]
    milestonesDB,   \* Milestone table: set of [id, goalId, targetAmount, order]
    donationsDB,    \* Donation table: set of [id, goalId, amount, stripePaymentId, status, createdAt]
    nextId,         \* next identifier the data API generates
    clock,          \* the data API's clock (createdAt of the latest commit)
    inv,            \* invocations of the stripe-webhook handler
    edit,           \* one EditGoalPage session
    peer,           \* a second EditGoalPage session, in another browser
    vGoal,          \* GoalPage state: goal
    vMilestones,    \* GoalPage state: milestones
    vDonations,     \* GoalPage state: donations
    vLoad,          \* GoalPage: the result loadGoal is waiting for
    vSub,           \* GoalPage: what its three observeQuery subscriptions hold
    checkout,       \* one donation attempt: handleDonate and the stripe-checkout handler
    create,         \* one CreateGoalPage session
    trip            \* one donation's amount on its way from the dialog to the ledger

vars == <<goals, milestonesDB, donationsDB, nextId, clock, inv, edit, peer,
          vGoal, vMilestones, vDonations, vLoad, vSub, checkout, create, trip>>

dbVars == <<goals, milestonesDB, donationsDB, nextId, clock>>

viewVars == <<vGoal, vMilestones, vDonations, vLoad, vSub>>

-----------------------------------------------------------------------------
(* Bounds *)

MaxInv == 2          \* webhook deliveries in one behaviour

MaxDonations == 3    \* stored donations the calculator is tried on

MaxMilestones == 2   \* stored milestones the calculator is tried on

MaxSubmits == 1      \* submits of the edit form in one behaviour

MaxFormRows == 2     \* milestone rows of the edit form

-----------------------------------------------------------------------------
(* Helpers *)

Range(s) == {s[i] : i \in DOMAIN s}

Abs(x) == IF x < 0 THEN -x ELSE x

RECURSIVE SumAmount(_)
\* the exact sum of the amounts of a finite set of donation records
SumAmount(S) ==
    IF S = {} THEN 0
    ELSE LET x == CHOOSE y \in S : TRUE IN x.amount + SumAmount(S \ {x})

\* every ordering of the finite set S
Orderings(S) ==
    {s \in [1..Cardinality(S) -> S] : \A x \in S : \E i \in DOMAIN s : s[i] = x}

-----------------------------------------------------------------------------
(* Data schema *)

GoalIds == {1, 2}

Statuses == {"pending", "completed", "failed"}

NoGoal == [targetAmount |-> 0, editPassword |-> "none"]

NoLoad == [pc |-> "none"]

\* the subscriptions before useEffect has opened them: for each of the three
\* observeQuery streams, whether its first snapshot was emitted and the items
\* it holds
NoSub ==
    [open |-> FALSE,
     goalSynced |-> FALSE, goal |-> NoGoal,
     milestonesSynced |-> FALSE, milestones |-> {},
     donationsSynced |-> FALSE, donations |-> {}]

\* the query without its goalId filter
DonationItems_AllGoals(g) == donationsDB

\* Donation.list / Donation.observeQuery with filter goalId eq g: the stored
\* donations of goal g; they come back in the table's scan order, any order.
DonationItems(g) == {d \in donationsDB : d.goalId = g}

\* Milestone.list / Milestone.observeQuery with filter goalId eq g.
MilestoneItems(g) == {m \in milestonesDB : m.goalId = g}

-----------------------------------------------------------------------------
(* GoalPage: the progress calculator *)

\* items.sort((a, b) => new Date(b.createdAt) - new Date(a.createdAt)):
\* newest first; the sort is stable, so ties keep the order of items.
IsNewestFirst(s) ==
    \A i, j \in DOMAIN s : i < j => s[i].createdAt >= s[j].createdAt

\* a list left in the order of the scan
SortNewestFirst_Unsorted(items) == Orderings(items)

RECURSIVE SortNewestFirst(_)
\* every result the sort can give for items in any scan order
SortNewestFirst(items) ==
    IF items = {} THEN {<<>>}
    ELSE UNION {{<<x>> \o t : t \in SortNewestFirst(items \ {x})} :
                  x \in {y \in items : \A z \in items : y.createdAt >= z.createdAt}}

\* items.sort((a, b) => a.order - b.order)
IsByOrder(s) ==
    \A i, j \in DOMAIN s : i < j => s[i].order <= s[j].order

RECURSIVE SortByOrder(_)
\* every result the sort can give for items in any scan order
SortByOrder(items) ==
    IF items = {} THEN {<<>>}
    ELSE UNION {{<<x>> \o t : t \in SortByOrder(items \ {x})} :
                  x \in {y \in items : \A z \in items : y.order <= z.order}}

RECURSIVE ReduceAmount(_, _)
\* .reduce((sum, d) => sum + d.amount, 0), left to right from index i
ReduceAmount(s, i) ==
    IF i > Len(s) THEN 0 ELSE s[i].amount + ReduceAmount(s, i + 1)

\* no filter at all
CompletedOnly_All(s) == s

\* .filter((d) => d.status === 'completed')
CompletedOnly(s) == SelectSeq(s, LAMBDA d : d.status = "completed")

currentAmount(donations) == ReduceAmount(CompletedOnly(donations), 1)

\* the "N donations" figure
donationCount(donations) == Len(CompletedOnly(donations))

\* the Recent Donations feed, in the order of the donations state
donationFeed(donations) == CompletedOnly(donations)

\* reached decided by the milestone's own amount
Reached_OwnAmount(cur, runningTotal, m) == cur >= m.targetAmount

\* reached: currentAmount >= runningTotal
Reached(cur, runningTotal, m) == cur >= runningTotal

RECURSIVE MapPositions(_, _, _, _, _)
\* milestones.map((m) => { runningTotal += m.targetAmount; ... }) from index
\* i on; position is the fraction num / den
MapPositions(ms, i, runningTotal, goal, cur) ==
    IF i > Len(ms) THEN <<>>
    ELSE LET rt == runningTotal + ms[i].targetAmount
         IN <<[id           |-> ms[i].id,
               targetAmount |-> ms[i].targetAmount,
               order        |-> ms[i].order,
               position     |-> [num |-> rt * 100, den |-> goal.targetAmount],
               reached      |-> Reached(cur, rt, ms[i])]>>
            \o MapPositions(ms, i + 1, rt, goal, cur)

milestonePositions(goal, milestones, cur) ==
    IF goal = NoGoal \/ Len(milestones) = 0 THEN <<>>
    ELSE MapPositions(milestones, 1, 0, goal, cur)

-----------------------------------------------------------------------------
\* A percentage the page computes is the quotient num / den, den > 0.
RatLE(a, b) == a.num * b.den <= b.num * a.den

RatEq(a, b) == a.num * b.den = b.num * a.den

Whole(n) == [num |-> n, den |-> 1]

\* Math.min(a, b)
MathMin(a, b) == IF RatLE(a, b) THEN a ELSE b

\* the percentage without the cap
progressPercent_Uncapped(goal, cur) ==
    IF goal = NoGoal THEN Whole(0)
    ELSE [num |-> cur * 100, den |-> goal.targetAmount]

\* progressPercent = goal ? Math.min((currentAmount / goal.targetAmount) * 100, 100) : 0
progressPercent(goal, cur) ==
    IF goal = NoGoal THEN Whole(0)
    ELSE MathMin([num |-> cur * 100, den |-> goal.targetAmount], Whole(100))

-----------------------------------------------------------------------------
(* stripe-webhook handler *)

Sigs == {"none", "invalid", "valid"}

EventTypes == {"checkout.session.completed", "payment_intent.created"}

Payments == {"pi_1", "pi_2", "pi_3", "pi_4"}

\* the checkout session a payment belongs to: metadata.goalId, amount_total
SessionGoal(p) == IF p = "pi_4" THEN 2 ELSE 1

SessionAmountTotal(p) == IF p = "pi_2" THEN 1250 ELSE 500

Events == [sig : Sigs, type : EventTypes, payment_intent : Payments]

NoEvent == [sig |-> "none", type |-> "none", payment_intent |-> "none"]

Idle == [pc |-> "idle", event |-> NoEvent, statusCode |-> 0, created |-> 0]

\* a handler that lets every notification through
SignatureAccepted_Any(e) == TRUE

\* lines 38-48: the header is looked up and only its presence is tested
SignatureAccepted(e) == e.sig # "none"

\* a notification whose body is not JSON
UnparsableEvents ==
    [sig : Sigs, type : {"unparsable"}, payment_intent : {"none"}]

\* line 50: JSON.parse(event.body || '{}') returns, or throws into the catch
BodyParses(e) == e \notin UnparsableEvents

\* a handler that takes every event type for a completed checkout
IsCheckoutCompleted_Any(e) == TRUE

\* line 52: stripeEvent.type === 'checkout.session.completed'
IsCheckoutCompleted(e) == e.type = "checkout.session.completed"

\* an input that records the donation as pending
DonationInput_Pending(e) ==
    [goalId          |-> SessionGoal(e.payment_intent),
     amount          |-> SessionAmountTotal(e.payment_intent),
     stripePaymentId |-> e.payment_intent,
     status          |-> "pending"]

\* lines 57-66: the input of the createDonation mutation
DonationInput(e) ==
    [goalId          |-> SessionGoal(e.payment_intent),
     amount          |-> SessionAmountTotal(e.payment_intent),
     stripePaymentId |-> e.payment_intent,
     status          |-> "completed"]

\* a put keyed by the goal: it replaces the goal's stored record
CreateDonationItem_Overwrite(db, input, id, at) ==
    {d \in db : d.goalId # input.goalId}
        \cup {[id              |-> id,
               goalId          |-> input.goalId,
               amount          |-> input.amount,
               stripePaymentId |-> input.stripePaymentId,
               status          |-> input.status,
               createdAt       |-> at]}

\* the createDonation mutation: the data API stores one new item under a
\* fresh id and stamps createdAt; the schema declares no unique field
\* besides the id.
CreateDonationItem(db, input, id, at) ==
    db \cup {[id              |-> id,
              goalId          |-> input.goalId,
              amount          |-> input.amount,
              stripePaymentId |-> input.stripePaymentId,
              status          |-> input.status,
              createdAt       |-> at]}

\* The handler from its start to its first await: the 400 for a missing
\* header, the 500 of the catch block for a body that does not parse, the
\* 200 for every other event type, or the createDonation request.
WebhookReceive(i, e) ==
    /\ inv[i].pc = "idle"
    /\ \A j \in 1..(i - 1) : inv[j].pc # "idle"   \* deliveries are numbered as they arrive
    /\ inv' = [inv EXCEPT ![i] =
                 IF ~SignatureAccepted(e)
                 THEN [pc |-> "done", event |-> e, statusCode |-> 400, created |-> 0]
                 ELSE IF ~BodyParses(e)
                 THEN [pc |-> "done", event |-> e, statusCode |-> 500, created |-> 0]
                 ELSE IF IsCheckoutCompleted(e)
                 THEN [pc |-> "createDonation", event |-> e, statusCode |-> 0, created |-> 0]
                 ELSE [pc |-> "done", event |-> e, statusCode |-> 200, created |-> 0]]
    /\ UNCHANGED <<dbVars, edit, peer, trip, checkout, create, viewVars>>

\* The mutation commits and the handler returns 200.
WebhookCreated(i) ==
    /\ inv[i].pc = "createDonation"
    /\ \E at \in {clock, clock + 1} :
         /\ clock' = at
         /\ donationsDB' = CreateDonationItem(donationsDB, DonationInput(inv[i].event),
                                              nextId, at)
    /\ nextId' = nextId + 1
    /\ inv' = [inv EXCEPT ![i].pc = "done", ![i].statusCode = 200,
                          ![i].created = nextId]
    /\ UNCHANGED <<goals, milestonesDB, edit, peer, trip, checkout, create, viewVars>>

\* client.graphql rejects: the catch block returns 500.
WebhookFailed(i) ==
    /\ inv[i].pc = "createDonation"
    /\ inv' = [inv EXCEPT ![i].pc = "done", ![i].statusCode = 500]
    /\ UNCHANGED <<dbVars, edit, peer, trip, checkout, create, viewVars>>

-----------------------------------------------------------------------------
(* EditGoalPage *)

EditedGoal == 1     \* the goalId of the page's route

IssuedSecret == "s3cret"    \* the editPassword CreateGoalPage generated

Passwords == {"s3cret", "guess"}

\* bcrypt.hash(editPassword, 10)
Hash(pw) == <<"bcrypt", pw>>

\* a comparison that accepts every password
bcryptCompare_Always(pw, hash) == TRUE

\* bcrypt.compare(password, result.data.editPassword)
bcryptCompare(pw, hash) == hash = Hash(pw)

\* the goals as CreateGoalPage stored them: target 10.00 under the hash of
\* the generated edit password
CreatedGoals ==
    [g \in GoalIds |-> [targetAmount |-> 1000, editPassword |-> Hash(IssuedSecret)]]

\* and the milestones of the edited goal, 6.00 and 4.00, order 0 and 1
CreatedMilestones ==
    {[id |-> 1, goalId |-> EditedGoal, targetAmount |-> 600, order |-> 0],
     [id |-> 2, goalId |-> EditedGoal, targetAmount |-> 400, order |-> 1]}

NoForm == [targetAmount |-> 0, milestones |-> <<>>]

\* what stripe.accounts.retrieve has not yet returned
NoAccount == [charges_enabled |-> FALSE, details_submitted |-> FALSE, retrieved |-> FALSE]

NoBody == [goalId |-> 0, amount |-> 0, stripeAccountId |-> "", donorName |-> ""]

\* a donation attempt before the Donate button is pressed: no request, no
\* checkout session and no account link at Stripe, the browser on the goal page
NoCheckout ==
    [pc |-> "idle", body |-> NoBody, account |-> NoAccount,
     sessions |-> {}, links |-> 0,
     statusCode |-> 0, error |-> "", url |-> "", onboardingUrl |-> "",
     location |-> "goal page"]

\* a donation before its amount is typed into the dialog; the amounts are
\* explained with the round trip below
NoTrip ==
    [pc |-> "dialog", entered |-> 0, amount |-> 0, product |-> 0,
     unit_amount |-> 0, amount_total |-> 0, recorded |-> 0]

\* CreateGoalPage before it is opened
NoCreate ==
    [pc          |-> "closed",
     data        |-> NoForm,   \* onSubmit's argument
     goalId      |-> 0,        \* goalResult.data.id
     creQ        |-> {},       \* Milestone.create requests not yet answered
     outcome     |-> "none",   \* how the last onSubmit ended
     submits     |-> 0,        \* calls of onSubmit so far
     beforeGoals |-> {},       \* the stored goals when the submit began
     beforeMs    |-> {}]       \* the stored milestones when the submit began

NoEdit ==
    [pc       |-> "closed",
     password |-> "none",
     existing |-> <<>>,     \* existingMilestones
     msCount  |-> 0,        \* milestones.length
     form     |-> NoForm,   \* the values react-hook-form holds
     data     |-> NoForm,   \* onSubmit's argument
     delQ     |-> {},       \* Milestone.delete requests not yet answered
     creQ     |-> {},       \* Milestone.create requests not yet answered
     outcome  |-> "none",   \* how the last onSubmit ended
     submits  |-> 0,        \* calls of onSubmit so far
     wrote    |-> FALSE,    \* the session has sent a mutation
     before   |-> {}]       \* the stored milestones when the save began

TargetChoices == {1000, 1001}

AmountChoices == {400, 600}

\* the amounts of the rows, row k of n; a row never typed into counts 0
RowAmount(form, k) ==
    IF k <= Len(form.milestones) THEN form.milestones[k] ELSE 0

RECURSIVE RunningTotal(_, _)
\* milestoneRunningTotals[n - 1] || 0 over the n rendered rows
RunningTotal(form, n) ==
    IF n = 0 THEN 0 ELSE RunningTotal(form, n - 1) + RowAmount(form, n)

totalMilestoneAmount(e) == RunningTotal(e.form, e.msCount)

\* a schema that accepts every value
ZodValid_Any(form) == TRUE

\* goalSchema: targetAmount >= 0.01, at least one milestone, each >= 0.01
ZodValid(form) ==
    /\ form.targetAmount >= 1
    /\ Len(form.milestones) >= 1
    /\ \A k \in DOMAIN form.milestones : form.milestones[k] >= 1

\* every rendered row holds values: a row added and never typed into is
\* registered with an empty name and NaN as its amount, which the schema
\* rejects
RenderedFilled(e) == e.msCount <= Len(e.form.milestones)

\* a check that never reports a mismatch
Mismatch_Never(total, target) == {FALSE}

\* Math.abs(totalMilestoneAmount - watchedTarget) > 0.01, in floating point:
\* a difference of exactly one hundredth compares either way (1.01 - 1 is
\* above 0.01, 1000.01 - 1000 is below it).
Mismatch(total, target) ==
    IF Abs(total - target) > 1 THEN {TRUE}
    ELSE IF Abs(total - target) = 1 THEN {TRUE, FALSE}
    ELSE {FALSE}

\* setValue(`milestones.${index}...`) for every stored milestone; the rows
\* behind them keep their values
SetRows(old, sorted) ==
    [k \in 1..(IF Len(old) > Len(sorted) THEN Len(old) ELSE Len(sorted)) |->
        IF k <= Len(sorted) THEN sorted[k].targetAmount ELSE old[k]]

\* the values with row k set to v, rows never typed into before it being 0
WithRow(old, k, v) ==
    [j \in 1..(IF Len(old) > k THEN Len(old) ELSE k) |->
        IF j = k THEN v ELSE IF j <= Len(old) THEN old[j] ELSE 0]

Amounts(sorted) == [k \in 1..Len(sorted) |-> sorted[k].targetAmount]

\* the page is opened with a password in its URL: useEffect calls loadGoal
\* and opens the subscriptions.
EditOpen(pw) ==
    /\ edit.pc = "closed"
    /\ edit' = [edit EXCEPT !.pc = "loadGoal", !.password = pw]
    /\ UNCHANGED <<dbVars, inv, peer, trip, checkout, create, viewVars>>

\* loadGoal, lines 137-160: Goal.get, then the password is compared; a
\* wrong one ends the session with navigate('/').
EditLoadGoal ==
    /\ edit.pc = "loadGoal"
    /\ edit' = [edit EXCEPT !.pc =
                  IF bcryptCompare(edit.password, goals[EditedGoal].editPassword)
                  THEN "loadMilestones" ELSE "left"]
    /\ UNCHANGED <<dbVars, inv, peer, trip, checkout, create, viewVars>>

\* loadGoal, lines 163-188: Milestone.list, the states are set and the form
\* is reset to the stored values.
EditLoadMilestones ==
    /\ edit.pc = "loadMilestones"
    /\ \E sorted \in SortByOrder(MilestoneItems(EditedGoal)) :
          edit' = [edit EXCEPT
                     !.pc = "ready",
                     !.existing = sorted,
                     !.msCount = Len(sorted),
                     !.form = [targetAmount |-> goals[EditedGoal].targetAmount,
                               milestones |-> Amounts(sorted)]]
    /\ UNCHANGED <<dbVars, inv, peer, trip, checkout, create, viewVars>>

\* milestoneSub.next, lines 110-126
EditMilestoneSubNext ==
    /\ edit.pc \notin {"closed", "left"}
    /\ \E sorted \in SortByOrder(MilestoneItems(EditedGoal)) :
          edit' = [edit EXCEPT
                     !.existing = sorted,
                     !.msCount = Len(sorted),
                     !.form.milestones = SetRows(edit.form.milestones, sorted)]
    /\ UNCHANGED <<dbVars, inv, peer, trip, checkout, create, viewVars>>

\* the form can be edited: it is rendered and a submit can still follow
Editable == edit.pc = "ready" /\ edit.submits < MaxSubmits

\* the user types a target amount
EditSetTarget(v) ==
    /\ Editable
    /\ edit' = [edit EXCEPT !.form.targetAmount = v]
    /\ UNCHANGED <<dbVars, inv, peer, trip, checkout, create, viewVars>>

\* the user types the amount of rendered row k
EditSetRow(k, v) ==
    /\ Editable
    /\ k \in 1..edit.msCount
    /\ edit' = [edit EXCEPT !.form.milestones = WithRow(edit.form.milestones, k, v)]
    /\ UNCHANGED <<dbVars, inv, peer, trip, checkout, create, viewVars>>

\* addMilestone
EditAddMilestone ==
    /\ Editable
    /\ edit.msCount < MaxFormRows
    /\ edit' = [edit EXCEPT !.msCount = edit.msCount + 1]
    /\ UNCHANGED <<dbVars, inv, peer, trip, checkout, create, viewVars>>

\* removeMilestone(index): the button exists when milestones.length > 1; the
\* state loses one entry, the form keeps the values of every row
EditRemoveMilestone ==
    /\ Editable
    /\ edit.msCount > 1
    /\ edit' = [edit EXCEPT !.msCount = edit.msCount - 1]
    /\ UNCHANGED <<dbVars, inv, peer, trip, checkout, create, viewVars>>

\* handleSubmit(onSubmit) with valid form values: onSubmit up to its first
\* await. A mismatch returns; otherwise Goal.update is sent.
EditSubmit ==
    /\ Editable
    /\ ZodValid(edit.form)
    /\ RenderedFilled(edit)
    /\ \E mismatch \in Mismatch(totalMilestoneAmount(edit), edit.form.targetAmount) :
          edit' = IF mismatch
                  THEN [edit EXCEPT !.outcome = "mismatch",
                                    !.submits = edit.submits + 1]
                  ELSE [edit EXCEPT !.pc = "updateGoal",
                                    !.outcome = "saving",
                                    !.submits = edit.submits + 1,
                                    !.wrote = TRUE,
                                    !.data = edit.form,
                                    !.before = MilestoneItems(EditedGoal)]
    /\ UNCHANGED <<dbVars, inv, peer, trip, checkout, create, viewVars>>

\* handleSubmit with values the resolver rejects: the errors are shown and
\* onSubmit is not called.
EditSubmitRejected ==
    /\ Editable
    /\ ~(ZodValid(edit.form) /\ RenderedFilled(edit))
    /\ edit' = [edit EXCEPT !.outcome = "invalid"]
    /\ UNCHANGED <<dbVars, inv, peer, trip, checkout, create, viewVars>>

\* the requests of the save in progress among the requests q
OfThisSave(e, q) == {r \in q : r.submit = e.submits}

\* the requests the save goes on with once the deletes are answered: one
\* Milestone.create per submitted row, each with its own input
AfterDeletes(e) ==
    [e EXCEPT !.pc = "creating",
              !.creQ = e.creQ \cup
                       {[submit |-> e.submits, row |-> k,
                         targetAmount |-> e.data.milestones[k]] :
                            k \in DOMAIN e.data.milestones}]

\* Goal.update is answered: the goal is stored and the deletes of
\* existingMilestones are sent, all at once (the creates, when there are
\* none to delete).
EditGoalUpdated ==
    /\ edit.pc = "updateGoal"
    /\ goals' = [goals EXCEPT ![EditedGoal].targetAmount = edit.data.targetAmount]
    /\ edit' = IF Len(edit.existing) = 0
               THEN AfterDeletes(edit)
               ELSE [edit EXCEPT !.pc = "deleting",
                                 !.delQ = edit.delQ \cup
                                          {[submit |-> edit.submits,
                                            id |-> edit.existing[k].id] :
                                               k \in DOMAIN edit.existing}]
    /\ UNCHANGED <<milestonesDB, donationsDB, nextId, clock, inv, peer, trip, checkout, create, viewVars>>

\* Goal.update rejects: the catch block reports the error.
EditGoalUpdateFailed ==
    /\ edit.pc = "updateGoal"
    /\ edit' = [edit EXCEPT !.pc = "ready", !.outcome = "error"]
    /\ UNCHANGED <<dbVars, inv, peer, trip, checkout, create, viewVars>>

\* one Milestone.delete is answered; the last answer of the Promise.all
\* sends the creates.
EditMilestoneDeleted(q) ==
    /\ q \in edit.delQ
    /\ milestonesDB' = {m \in milestonesDB : m.id # q.id}
    /\ LET e == [edit EXCEPT !.delQ = edit.delQ \ {q}]
       IN edit' = IF /\ edit.pc = "deleting"
                     /\ q.submit = edit.submits
                     /\ OfThisSave(e, e.delQ) = {}
                  THEN AfterDeletes(e) ELSE e
    /\ UNCHANGED <<goals, donationsDB, nextId, clock, inv, peer, trip, checkout, create, viewVars>>

\* one Milestone.delete rejects: Promise.all rejects and the catch block
\* reports the error; the other deletes stay in flight.
EditMilestoneDeleteFailed(q) ==
    /\ q \in edit.delQ
    /\ LET e == [edit EXCEPT !.delQ = edit.delQ \ {q}]
       IN edit' = IF edit.pc = "deleting" /\ q.submit = edit.submits
                  THEN [e EXCEPT !.pc = "ready", !.outcome = "error"]
                  ELSE e
    /\ UNCHANGED <<dbVars, inv, peer, trip, checkout, create, viewVars>>

\* the save's last step: "Saved!" and loadGoal()
AfterCreates(e) == [e EXCEPT !.pc = "loadGoal", !.outcome = "saved"]

\* one Milestone.create is answered: the row of the submitted values is
\* stored with order row - 1 (the index of the array).
EditMilestoneCreated(q) ==
    /\ q \in edit.creQ
    /\ milestonesDB' = milestonesDB \cup
          {[id |-> nextId, goalId |-> EditedGoal,
            targetAmount |-> q.targetAmount, order |-> q.row - 1]}
    /\ nextId' = nextId + 1
    /\ LET e == [edit EXCEPT !.creQ = edit.creQ \ {q}]
       IN edit' = IF /\ edit.pc = "creating"
                     /\ q.submit = edit.submits
                     /\ OfThisSave(e, e.creQ) = {}
                  THEN AfterCreates(e) ELSE e
    /\ UNCHANGED <<goals, donationsDB, clock, inv, peer, trip, checkout, create, viewVars>>

\* one Milestone.create rejects: the catch block reports the error; the
\* other creates stay in flight.
EditMilestoneCreateFailed(q) ==
    /\ q \in edit.creQ
    /\ LET e == [edit EXCEPT !.creQ = edit.creQ \ {q}]
       IN edit' = IF edit.pc = "creating" /\ q.submit = edit.submits
                  THEN [e EXCEPT !.pc = "ready", !.outcome = "error"]
                  ELSE e
    /\ UNCHANGED <<dbVars, inv, peer, trip, checkout, create, viewVars>>

EditNext ==
    \/ \E pw \in Passwords : EditOpen(pw)
    \/ EditLoadGoal
    \/ EditLoadMilestones
    \/ EditMilestoneSubNext
    \/ \E v \in TargetChoices : EditSetTarget(v)
    \/ \E k \in 1..MaxFormRows, v \in AmountChoices : EditSetRow(k, v)
    \/ EditAddMilestone
    \/ EditRemoveMilestone
    \/ EditSubmit
    \/ EditGoalUpdated
    \/ EditGoalUpdateFailed
    \/ \E q \in edit.delQ : EditMilestoneDeleted(q)
    \/ \E q \in edit.delQ : EditMilestoneDeleteFailed(q)
    \/ \E q \in edit.creQ : EditMilestoneCreated(q)
    \/ \E q \in edit.creQ : EditMilestoneCreateFailed(q)

InitEdit ==
    /\ goals = CreatedGoals
    /\ milestonesDB = CreatedMilestones
    /\ donationsDB = {}
    /\ nextId = 3
    /\ clock = 1
    /\ inv = [i \in 1..MaxInv |-> Idle]
    /\ edit = NoEdit
    /\ peer = NoEdit
    /\ trip = NoTrip
    /\ vGoal = NoGoal
    /\ vMilestones = <<>>
    /\ vDonations = <<>>
    /\ vLoad = NoLoad
    /\ vSub = NoSub
    /\ checkout = NoCheckout
    /\ create = NoCreate

SpecEdit == InitEdit /\ [][EditNext]_vars


-----------------------------------------------------------------------------
(* A second EditGoalPage session of the same goal, opened in another       *)
(* browser with the edit link: the same component, its state in peer.      *)

\* the page is opened with the issued password in its URL
PeerOpen ==
    /\ peer.pc = "closed"
    /\ peer' = [peer EXCEPT !.pc = "loadGoal", !.password = IssuedSecret]
    /\ UNCHANGED <<dbVars, inv, edit, trip, checkout, create, viewVars>>

\* loadGoal, lines 137-160
PeerLoadGoal ==
    /\ peer.pc = "loadGoal"
    /\ peer' = [peer EXCEPT !.pc =
                  IF bcryptCompare(peer.password, goals[EditedGoal].editPassword)
                  THEN "loadMilestones" ELSE "left"]
    /\ UNCHANGED <<dbVars, inv, edit, trip, checkout, create, viewVars>>

\* loadGoal, lines 163-188
PeerLoadMilestones ==
    /\ peer.pc = "loadMilestones"
    /\ \E sorted \in SortByOrder(MilestoneItems(EditedGoal)) :
          peer' = [peer EXCEPT
                     !.pc = "ready",
                     !.existing = sorted,
                     !.msCount = Len(sorted),
                     !.form = [targetAmount |-> goals[EditedGoal].targetAmount,
                               milestones |-> Amounts(sorted)]]
    /\ UNCHANGED <<dbVars, inv, edit, trip, checkout, create, viewVars>>

\* milestoneSub.next, lines 110-126
PeerMilestoneSubNext ==
    /\ peer.pc \notin {"closed", "left"}
    /\ \E sorted \in SortByOrder(MilestoneItems(EditedGoal)) :
          peer' = [peer EXCEPT
                     !.existing = sorted,
                     !.msCount = Len(sorted),
                     !.form.milestones = SetRows(peer.form.milestones, sorted)]
    /\ UNCHANGED <<dbVars, inv, edit, trip, checkout, create, viewVars>>

\* the user types the amount of rendered row k
PeerSetRow(k, v) ==
    /\ peer.pc = "ready" /\ peer.submits = 0
    /\ k \in 1..peer.msCount
    /\ peer' = [peer EXCEPT !.form.milestones = WithRow(peer.form.milestones, k, v)]
    /\ UNCHANGED <<dbVars, inv, edit, trip, checkout, create, viewVars>>

\* handleSubmit(onSubmit) with valid form values, up to the first await
PeerSubmit ==
    /\ peer.pc = "ready" /\ peer.submits = 0
    /\ ZodValid(peer.form)
    /\ RenderedFilled(peer)
    /\ \E mismatch \in Mismatch(totalMilestoneAmount(peer), peer.form.targetAmount) :
          peer' = IF mismatch
                  THEN [peer EXCEPT !.outcome = "mismatch",
                                    !.submits = peer.submits + 1]
                  ELSE [peer EXCEPT !.pc = "updateGoal",
                                    !.outcome = "saving",
                                    !.submits = peer.submits + 1,
                                    !.wrote = TRUE,
                                    !.data = peer.form,
                                    !.before = MilestoneItems(EditedGoal)]
    /\ UNCHANGED <<dbVars, inv, edit, trip, checkout, create, viewVars>>

\* Goal.update is answered and the deletes of existingMilestones are sent
PeerGoalUpdated ==
    /\ peer.pc = "updateGoal"
    /\ goals' = [goals EXCEPT ![EditedGoal].targetAmount = peer.data.targetAmount]
    /\ peer' = IF Len(peer.existing) = 0
               THEN AfterDeletes(peer)
               ELSE [peer EXCEPT !.pc = "deleting",
                                 !.delQ = peer.delQ \cup
                                          {[submit |-> peer.submits,
                                            id |-> peer.existing[k].id] :
                                               k \in DOMAIN peer.existing}]
    /\ UNCHANGED <<milestonesDB, donationsDB, nextId, clock, inv, edit, trip, checkout, create, viewVars>>

\* one Milestone.delete is answered (deleting an item another session has
\* deleted already leaves the table as it is); the last answer sends the
\* creates
PeerMilestoneDeleted(q) ==
    /\ q \in peer.delQ
    /\ milestonesDB' = {m \in milestonesDB : m.id # q.id}
    /\ LET e == [peer EXCEPT !.delQ = peer.delQ \ {q}]
       IN peer' = IF /\ peer.pc = "deleting"
                     /\ q.submit = peer.submits
                     /\ OfThisSave(e, e.delQ) = {}
                  THEN AfterDeletes(e) ELSE e
    /\ UNCHANGED <<goals, donationsDB, nextId, clock, inv, edit, trip, checkout, create, viewVars>>

\* one Milestone.create is answered; the last answer ends the save
PeerMilestoneCreated(q) ==
    /\ q \in peer.creQ
    /\ milestonesDB' = milestonesDB \cup
          {[id |-> nextId, goalId |-> EditedGoal,
            targetAmount |-> q.targetAmount, order |-> q.row - 1]}
    /\ nextId' = nextId + 1
    /\ LET e == [peer EXCEPT !.creQ = peer.creQ \ {q}]
       IN peer' = IF /\ peer.pc = "creating"
                     /\ q.submit = peer.submits
                     /\ OfThisSave(e, e.creQ) = {}
                  THEN AfterCreates(e) ELSE e
    /\ UNCHANGED <<goals, donationsDB, clock, inv, edit, trip, checkout, create, viewVars>>

PeerNext ==
    \/ PeerOpen
    \/ PeerLoadGoal
    \/ PeerLoadMilestones
    \/ PeerMilestoneSubNext
    \/ \E k \in 1..MaxFormRows, v \in AmountChoices : PeerSetRow(k, v)
    \/ PeerSubmit
    \/ PeerGoalUpdated
    \/ \E q \in peer.delQ : PeerMilestoneDeleted(q)
    \/ \E q \in peer.creQ : PeerMilestoneCreated(q)

\* Two sessions of the edit page on the same goal, every request answered:
\* the first saves the form as loaded, the second may retype its rows.
PairNext ==
    \/ EditOpen(IssuedSecret)
    \/ EditLoadGoal
    \/ EditLoadMilestones
    \/ EditMilestoneSubNext
    \/ edit.submits = 0 /\ EditSubmit
    \/ EditGoalUpdated
    \/ \E q \in edit.delQ : EditMilestoneDeleted(q)
    \/ \E q \in edit.creQ : EditMilestoneCreated(q)
    \/ PeerNext

SpecPair == InitEdit /\ [][PairNext]_vars

-----------------------------------------------------------------------------
(* CreateGoalPage *)

GeneratedSecret == "generated"   \* the edit password onSubmit draws

\* the values the form is submitted with, every row rendered
CreateForms ==
    [targetAmount : TargetChoices,
     milestones   : UNION {[1..n -> AmountChoices] : n \in 1..MaxFormRows}]

\* the page is opened and the bank account is connected: the form is shown.
CreateOpen ==
    /\ create.pc = "closed"
    /\ create' = [create EXCEPT !.pc = "ready"]
    /\ UNCHANGED <<dbVars, inv, peer, trip, edit, checkout, viewVars>>

\* handleSubmit(onSubmit) with valid form values: onSubmit up to its first
\* request. A mismatch returns; otherwise the password is drawn and hashed
\* and Goal.create is sent.
CreateSubmit(form) ==
    /\ create.pc = "ready"
    /\ create.submits < MaxSubmits
    /\ ZodValid(form)
    /\ \E mismatch \in Mismatch(RunningTotal(form, Len(form.milestones)),
                                 form.targetAmount) :
          create' = IF mismatch
                    THEN [create EXCEPT !.outcome = "mismatch",
                                        !.submits = create.submits + 1,
                                        !.data = form,
                                        !.beforeGoals = DOMAIN goals,
                                        !.beforeMs = milestonesDB]
                    ELSE [create EXCEPT !.pc = "createGoal",
                                        !.outcome = "creating",
                                        !.submits = create.submits + 1,
                                        !.data = form,
                                        !.beforeGoals = DOMAIN goals,
                                        !.beforeMs = milestonesDB]
    /\ UNCHANGED <<dbVars, inv, peer, trip, edit, checkout, viewVars>>

\* handleSubmit with values the resolver rejects: the errors are shown and
\* onSubmit is not called.
CreateSubmitRejected(form) ==
    /\ create.pc = "ready"
    /\ create.submits < MaxSubmits
    /\ ~ZodValid(form)
    /\ create' = [create EXCEPT !.outcome = "invalid", !.data = form]
    /\ UNCHANGED <<dbVars, inv, edit, peer, trip, checkout, viewVars>>

\* Goal.create is answered with the stored goal: the creates of the
\* milestones are sent, all at once.
CreateGoalCreated ==
    /\ create.pc = "createGoal"
    /\ goals' = goals @@ (nextId :> [targetAmount |-> create.data.targetAmount,
                                      editPassword |-> Hash(GeneratedSecret)])
    /\ nextId' = nextId + 1
    /\ create' = [create EXCEPT
                     !.pc = "createMilestones",
                     !.goalId = nextId,
                     !.creQ = create.creQ \cup
                              {[submit |-> create.submits, row |-> k, goalId |-> nextId,
                                targetAmount |-> create.data.milestones[k]] :
                                   k \in DOMAIN create.data.milestones}]
    /\ UNCHANGED <<milestonesDB, donationsDB, clock, inv, peer, trip, edit, checkout, viewVars>>

\* Goal.create rejects or is answered without data: the catch block reports
\* "Creation Failed".
CreateGoalFailed ==
    /\ create.pc = "createGoal"
    /\ create' = [create EXCEPT !.pc = "ready", !.outcome = "error"]
    /\ UNCHANGED <<dbVars, inv, peer, trip, edit, checkout, viewVars>>

\* the page once every Milestone.create of the Promise.all is answered:
\* navigate to the edit page of the new goal
AfterMilestoneCreates(c) ==
    IF c.pc = "createMilestones" /\ OfThisSave(c, c.creQ) = {}
    THEN [c EXCEPT !.pc = "navigated", !.outcome = "created"]
    ELSE c

\* one Milestone.create is answered: its row is stored with order row - 1.
CreateMilestoneCreated(q) ==
    /\ q \in create.creQ
    /\ milestonesDB' = milestonesDB \cup
          {[id |-> nextId, goalId |-> q.goalId,
            targetAmount |-> q.targetAmount, order |-> q.row - 1]}
    /\ nextId' = nextId + 1
    /\ LET c == [create EXCEPT !.creQ = create.creQ \ {q}]
       IN create' = IF q.submit = create.submits THEN AfterMilestoneCreates(c) ELSE c
    /\ UNCHANGED <<goals, donationsDB, clock, inv, peer, trip, edit, checkout, viewVars>>

\* one Milestone.create rejects: the catch block reports "Creation Failed";
\* the other creates stay in flight.
CreateMilestoneFailed(q) ==
    /\ q \in create.creQ
    /\ LET c == [create EXCEPT !.creQ = create.creQ \ {q}]
       IN create' = IF create.pc = "createMilestones" /\ q.submit = create.submits
                    THEN [c EXCEPT !.pc = "ready", !.outcome = "error"]
                    ELSE c
    /\ UNCHANGED <<dbVars, inv, peer, trip, edit, checkout, viewVars>>

CreateNext ==
    \/ CreateOpen
    \/ \E form \in CreateForms : CreateSubmit(form)
    \/ CreateGoalCreated
    \/ CreateGoalFailed
    \/ \E q \in create.creQ : CreateMilestoneCreated(q)
    \/ \E q \in create.creQ : CreateMilestoneFailed(q)

-----------------------------------------------------------------------------
(* Checkout initiation: handleDonate and the stripe-checkout handler *)

\* the JSON bodies posted to the function URL; 0 and "" stand for a field
\* that is missing or falsy
CheckoutBodies ==
    [goalId : {0, 1}, amount : {0, 500, 1250},
     stripeAccountId : {"", "acct_1"}, donorName : {"", "Ann"}]

\* the accounts stripe.accounts.retrieve can return
AccountStates ==
    [charges_enabled : BOOLEAN, details_submitted : BOOLEAN, retrieved : {TRUE}]

\* an activation check that looks at charges_enabled only
Activated_ChargesOnly(account) == account.charges_enabled

\* line 23: the destination can receive funds
Activated(account) == account.charges_enabled /\ account.details_submitted

\* lines 44-71: the checkout session the handler asks Stripe for
CheckoutSession(body) ==
    [goalId      |-> body.goalId,
     unit_amount |-> body.amount,
     donorName   |-> IF body.donorName = "" THEN "Anonymous" ELSE body.donorName,
     destination |-> body.stripeAccountId]

\* lines 10-21: the body is read; a missing field is answered 400, otherwise
\* the account is asked for.
CheckoutRequest(body) ==
    /\ checkout.pc = "idle"
    /\ checkout' =
         IF body.goalId = 0 \/ body.amount = 0 \/ body.stripeAccountId = ""
         THEN [checkout EXCEPT !.pc = "responded", !.body = body,
                               !.statusCode = 400,
                               !.error = "Missing required fields"]
         ELSE [checkout EXCEPT !.pc = "retrieve", !.body = body]
    /\ UNCHANGED <<dbVars, inv, peer, trip, edit, create, viewVars>>

\* lines 21-23: the account comes back and is tested.
CheckoutRetrieved(account) ==
    /\ checkout.pc = "retrieve"
    /\ checkout' = [checkout EXCEPT
                       !.account = account,
                       !.pc = IF Activated(account) THEN "createSession"
                              ELSE "accountLink"]
    /\ UNCHANGED <<dbVars, inv, peer, trip, edit, create, viewVars>>

\* lines 25-41: the onboarding link is created and returned with the 400.
CheckoutLinkCreated ==
    /\ checkout.pc = "accountLink"
    /\ checkout' = [checkout EXCEPT
                       !.pc = "responded",
                       !.links = @ + 1,
                       !.statusCode = 400,
                       !.error = "Account onboarding incomplete",
                       !.onboardingUrl = "account link"]
    /\ UNCHANGED <<dbVars, inv, peer, trip, edit, create, viewVars>>

\* lines 44-76: the checkout session is created and its url returned.
CheckoutSessionCreated ==
    /\ checkout.pc = "createSession"
    /\ checkout' = [checkout EXCEPT
                       !.pc = "responded",
                       !.sessions = @ \cup {CheckoutSession(checkout.body)},
                       !.statusCode = 200,
                       !.url = "checkout session"]
    /\ UNCHANGED <<dbVars, inv, peer, trip, edit, create, viewVars>>

\* lines 77-85: a call to Stripe rejects and the catch block answers 500.
CheckoutFailed ==
    /\ checkout.pc \in {"retrieve", "accountLink", "createSession"}
    /\ checkout' = [checkout EXCEPT !.pc = "responded", !.statusCode = 500,
                                    !.error = "Stripe error"]
    /\ UNCHANGED <<dbVars, inv, peer, trip, edit, create, viewVars>>

\* handleDonate after the fetch: the onboarding dialog (followed to the link
\* or dismissed), the redirect to the checkout, or the error dialog.
HandleDonateResponse(confirmed) ==
    /\ checkout.pc = "responded"
    /\ checkout' = [checkout EXCEPT
                       !.pc = "done",
                       !.location =
                          IF checkout.statusCode # 200 /\ checkout.onboardingUrl # ""
                          THEN IF confirmed THEN "onboarding" ELSE "goal page"
                          ELSE IF checkout.url # "" THEN "checkout"
                          ELSE "error dialog"]
    /\ UNCHANGED <<dbVars, inv, peer, trip, edit, create, viewVars>>

CheckoutNext ==
    \/ \E body \in CheckoutBodies : CheckoutRequest(body)
    \/ \E account \in AccountStates : CheckoutRetrieved(account)
    \/ CheckoutLinkCreated
    \/ CheckoutSessionCreated
    \/ CheckoutFailed
    \/ \E confirmed \in BOOLEAN : HandleDonateResponse(confirmed)

-----------------------------------------------------------------------------
(* The amount of a donation, from the dialog to the ledger.  The donor's    *)
(* text and Stripe's amounts are whole cents; a JavaScript number is held   *)
(* in thousandths of a cent, so the number nearest to c cents is c * 1000.  *)

Sub == 1000     \* thousandths in one cent

\* how far a floating-point product can lie from the exact one: for amounts
\* below 2^51 cents it is far less than half a cent; the model lets it be
\* off by one thousandth of a cent either way
FloatError == {-1, 0, 1}

\* the texts a donor types into the amount field, in cents: 0.50, 1.00 to
\* 1.30, 12.34, 19.99
EnteredCents == {50} \cup (100..130) \cup {1234, 1999}

\* parseFloat(text) of a text in whole cents: the number nearest to it
ParseFloat(cents) == cents * Sub

\* amount * 100 in floating point: the numbers the product can be
Times100(x) == {x + err : err \in FloatError}

\* a conversion that cuts the fraction off
MathRound_Truncate(p) == p \div Sub

\* Math.round(p): the nearest integer, halves upwards
MathRound(p) == (p + Sub \div 2) \div Sub

\* amount_total / 100: the number nearest to the quotient
DivideBy100(cents) == cents * Sub

\* preConfirm, line 405: an amount below 1 keeps the dialog open with its
\* validation message; otherwise handleDonate posts parseFloat(amount).
TripDonate ==
    /\ trip.pc = "dialog"
    /\ trip' = IF ParseFloat(trip.entered) < 1 * 100 * Sub
               THEN [trip EXCEPT !.pc = "refused"]
               ELSE [trip EXCEPT !.pc = "posted", !.amount = ParseFloat(trip.entered)]
    /\ UNCHANGED <<dbVars, inv, edit, peer, checkout, create, viewVars>>

\* stripe-checkout, line 53: unit_amount: Math.round(amount * 100)
TripCheckout ==
    /\ trip.pc = "posted"
    /\ \E p \in Times100(trip.amount) :
          trip' = [trip EXCEPT !.pc = "session", !.product = p,
                               !.unit_amount = MathRound(p)]
    /\ UNCHANGED <<dbVars, inv, edit, peer, checkout, create, viewVars>>

\* the donor pays the session: one line item of quantity 1 and no fee, so
\* amount_total is unit_amount
TripPaid ==
    /\ trip.pc = "session"
    /\ trip' = [trip EXCEPT !.pc = "paid", !.amount_total = trip.unit_amount * 1]
    /\ UNCHANGED <<dbVars, inv, edit, peer, checkout, create, viewVars>>

\* stripe-webhook, line 60: amount: session.amount_total / 100
TripRecorded ==
    /\ trip.pc = "paid"
    /\ trip' = [trip EXCEPT !.pc = "recorded",
                            !.recorded = DivideBy100(trip.amount_total)]
    /\ UNCHANGED <<dbVars, inv, edit, peer, checkout, create, viewVars>>

TripNext ==
    \/ TripDonate
    \/ TripCheckout
    \/ TripPaid
    \/ TripRecorded

-----------------------------------------------------------------------------
(* The initial state and the payment-confirmation system *)


Init ==
    /\ goals = CreatedGoals
    /\ milestonesDB = CreatedMilestones
    /\ donationsDB = {}
    /\ nextId = 3
    /\ clock = 1
    /\ inv = [i \in 1..MaxInv |-> Idle]
    /\ edit = NoEdit
    /\ peer = NoEdit
    /\ trip = NoTrip
    /\ vGoal = NoGoal
    /\ vMilestones = <<>>
    /\ vDonations = <<>>
    /\ vLoad = NoLoad
    /\ vSub = NoSub
    /\ checkout = NoCheckout
    /\ create = NoCreate

Next ==
    \/ \E i \in 1..MaxInv, e \in Events : WebhookReceive(i, e)
    \/ \E i \in 1..MaxInv : WebhookCreated(i)
    \/ \E i \in 1..MaxInv : WebhookFailed(i)

Spec == Init /\ [][Next]_vars

\* the handler under every notification, those whose body is not JSON
\* included
RawNext ==
    \/ \E i \in 1..MaxInv, e \in Events \cup UnparsableEvents : WebhookReceive(i, e)
    \/ \E i \in 1..MaxInv : WebhookCreated(i)
    \/ \E i \in 1..MaxInv : WebhookFailed(i)

SpecRaw == Init /\ [][RawNext]_vars

-----------------------------------------------------------------------------
(* GoalPage: loading and the live subscriptions *)

ViewedGoal == 1     \* the goalId of the page's route

\* useEffect: loadGoal() is called and the three observeQuery subscriptions
\* are opened.
GoalPageMount ==
    /\ vLoad.pc = "none"
    /\ vLoad' = [pc |-> "requested"]
    /\ vSub' = [NoSub EXCEPT !.open = TRUE]
    /\ UNCHANGED <<dbVars, inv, peer, trip, edit, checkout, create, vGoal, vMilestones, vDonations>>

\* loadGoal: Goal.get, Milestone.list and Donation.list are answered.
LoadGoalFetch ==
    /\ vLoad.pc = "requested"
    /\ \E ms \in SortByOrder(MilestoneItems(ViewedGoal)),
          ds \in SortNewestFirst(DonationItems(ViewedGoal)) :
          vLoad' = [pc |-> "fetched", goal |-> goals[ViewedGoal],
                    milestones |-> ms, donations |-> ds]
    /\ UNCHANGED <<dbVars, inv, peer, trip, edit, checkout, create, vGoal, vMilestones, vDonations, vSub>>

\* loadGoal after the await: setGoal, setMilestones, setDonations.
LoadGoalResolve ==
    /\ vLoad.pc = "fetched"
    /\ vGoal' = vLoad.goal
    /\ vMilestones' = vLoad.milestones
    /\ vDonations' = vLoad.donations
    /\ vLoad' = [pc |-> "loaded"]
    /\ UNCHANGED <<dbVars, inv, peer, trip, edit, checkout, create, vSub>>

\* goalSub.next: if (items[0]) setGoal(items[0]).  The stream emits its
\* first snapshot, and afterwards emits when the stored goal has changed.
GoalSubNext ==
    /\ vSub.open
    /\ ~vSub.goalSynced \/ vSub.goal # goals[ViewedGoal]
    /\ vSub' = [vSub EXCEPT !.goalSynced = TRUE, !.goal = goals[ViewedGoal]]
    /\ vGoal' = goals[ViewedGoal]
    /\ UNCHANGED <<dbVars, inv, peer, trip, edit, checkout, create, vMilestones, vDonations, vLoad>>

\* the items the milestone stream holds after its next message: the stored
\* list for the first snapshot, afterwards one stored change (a create or a
\* delete it has not yet seen) applied to what it holds
MilestoneSubItems ==
    LET stored == MilestoneItems(ViewedGoal) IN
    IF ~vSub.milestonesSynced THEN {stored}
    ELSE {vSub.milestones \cup {m} : m \in stored \ vSub.milestones}
         \cup {vSub.milestones \ {m} : m \in vSub.milestones \ stored}

\* milestoneSub.next: setMilestones(items.sort(by order))
MilestoneSubNext ==
    /\ vSub.open
    /\ \E items \in MilestoneSubItems :
          /\ vSub' = [vSub EXCEPT !.milestonesSynced = TRUE, !.milestones = items]
          /\ vMilestones' \in SortByOrder(items)
    /\ UNCHANGED <<dbVars, inv, peer, trip, edit, checkout, create, vGoal, vDonations, vLoad>>

\* a stream that also shows the donations whose createDonation is in flight
DonationSubItems_Optimistic ==
    {DonationItems(ViewedGoal) \cup
        {[id              |-> 0,
          goalId          |-> ViewedGoal,
          amount          |-> DonationInput(inv[i].event).amount,
          stripePaymentId |-> inv[i].event.payment_intent,
          status          |-> "completed",
          createdAt       |-> clock] :
            i \in {j \in 1..MaxInv : inv[j].pc = "createDonation"}}}

\* the items the donation stream holds after its next message: the stored
\* list for the first snapshot, afterwards the earliest committed donation
\* it has not yet seen added to what it holds
DonationSubItems ==
    LET stored  == DonationItems(ViewedGoal)
        pending == stored \ vSub.donations
    IN  IF ~vSub.donationsSynced THEN {stored}
        ELSE {vSub.donations \cup {d} :
                 d \in {x \in pending : \A y \in pending : x.id <= y.id}}

\* donationSub.next: setDonations(items.sort(newest first))
DonationSubNext ==
    /\ vSub.open
    /\ \E items \in DonationSubItems :
          /\ vSub' = [vSub EXCEPT !.donationsSynced = TRUE, !.donations = items]
          /\ vDonations' \in SortNewestFirst(items)
    /\ UNCHANGED <<dbVars, inv, peer, trip, edit, checkout, create, vGoal, vMilestones, vLoad>>

GoalPageNext ==
    \/ GoalPageMount
    \/ LoadGoalFetch
    \/ LoadGoalResolve
    \/ GoalSubNext
    \/ MilestoneSubNext
    \/ DonationSubNext

SpecCheckout == Init /\ [][CheckoutNext]_vars

\* the amount's way for every text of EnteredCents
InitTrip ==
    /\ goals = CreatedGoals
    /\ milestonesDB = CreatedMilestones
    /\ donationsDB = {}
    /\ nextId = 3
    /\ clock = 1
    /\ inv = [i \in 1..MaxInv |-> Idle]
    /\ edit = NoEdit
    /\ peer = NoEdit
    /\ \E c \in EnteredCents : trip = [NoTrip EXCEPT !.entered = c]
    /\ vGoal = NoGoal
    /\ vMilestones = <<>>
    /\ vDonations = <<>>
    /\ vLoad = NoLoad
    /\ vSub = NoSub
    /\ checkout = NoCheckout
    /\ create = NoCreate

SpecTrip == InitTrip /\ [][TripNext]_vars

-----------------------------------------------------------------------------
(* A viewer on the public goal page while confirmations arrive *)

\* the notifications Stripe sends for paid checkout sessions of both goals
LiveEvents ==
    {e \in Events :
        /\ e.sig = "valid"
        /\ e.type = "checkout.session.completed"
        /\ e.payment_intent \in {"pi_1", "pi_2", "pi_4"}}

LiveNext ==
    \/ \E i \in 1..MaxInv, e \in LiveEvents : WebhookReceive(i, e)
    \/ \E i \in 1..MaxInv : WebhookCreated(i)
    \/ \E i \in 1..MaxInv : WebhookFailed(i)
    \/ GoalPageNext

SpecLive == Init /\ [][LiveNext]_vars

\* the same, with every request of the page eventually answered and every
\* message of its subscriptions eventually delivered
SpecLiveFair ==
    /\ SpecLive
    /\ WF_vars(GoalPageMount)
    /\ WF_vars(LoadGoalFetch)
    /\ WF_vars(LoadGoalResolve)
    /\ WF_vars(GoalSubNext)
    /\ WF_vars(MilestoneSubNext)
    /\ WF_vars(DonationSubNext)

-----------------------------------------------------------------------------
(* The whole system: the webhook deliveries beside one browser session,    *)
(* which is the edit page (submitted once, as loaded), the create page    *)
(* (submitted once) or a donation attempt.                                 *)

\* the notifications delivered: two paid checkout sessions of goal 1, one
\* notification without the signature header and one of another event type
SysEvents ==
    {e \in LiveEvents : e.payment_intent \in {"pi_1", "pi_2"}} \cup
    {e \in Events : /\ e.payment_intent = "pi_1"
                    /\ \/ e.sig = "none" /\ e.type = "checkout.session.completed"
                       \/ e.sig = "valid" /\ e.type = "payment_intent.created"}

NoSession ==
    /\ edit.pc = "closed"
    /\ create.pc = "closed"
    /\ checkout.pc = "idle"

\* the body handleDonate posts for a donation of 5.00 to goal 1
DonateBodies ==
    {b \in CheckoutBodies : b.goalId = 1 /\ b.amount = 500 /\ b.stripeAccountId # ""}

\* the forms the create page is submitted with: target 10.00 and one or
\* two rows
SysForms ==
    {f \in CreateForms : f.targetAmount = 1000 /\ Len(f.milestones) <= 2}

SysNext ==
    \/ \E i \in 1..MaxInv, e \in SysEvents : WebhookReceive(i, e)
    \/ \E i \in 1..MaxInv : WebhookCreated(i)
    \/ \E i \in 1..MaxInv : WebhookFailed(i)
    \/ NoSession /\ EditOpen(IssuedSecret)
    \/ EditLoadGoal
    \/ EditLoadMilestones
    \/ edit.submits = 0 /\ EditSubmit
    \/ EditGoalUpdated
    \/ EditGoalUpdateFailed
    \/ \E q \in edit.delQ : EditMilestoneDeleted(q)
    \/ \E q \in edit.delQ : EditMilestoneDeleteFailed(q)
    \/ \E q \in edit.creQ : EditMilestoneCreated(q)
    \/ \E q \in edit.creQ : EditMilestoneCreateFailed(q)
    \/ NoSession /\ CreateOpen
    \/ \E form \in SysForms : create.submits = 0 /\ CreateSubmit(form)
    \/ CreateGoalCreated
    \/ CreateGoalFailed
    \/ \E q \in create.creQ : CreateMilestoneCreated(q)
    \/ \E q \in create.creQ : CreateMilestoneFailed(q)
    \/ \E body \in DonateBodies : NoSession /\ CheckoutRequest(body)
    \/ \E account \in AccountStates : CheckoutRetrieved(account)
    \/ CheckoutLinkCreated
    \/ CheckoutSessionCreated
    \/ CheckoutFailed
    \/ \E confirmed \in BOOLEAN : HandleDonateResponse(confirmed)

SpecSystem == Init /\ [][SysNext]_vars

-----------------------------------------------------------------------------
(* The forms of the edit page and the create page with every value a user  *)
(* can leave in them, a zero target and a zero amount included; one of the *)
(* two pages is open in a behaviour and its form is accepted once.         *)

FormTargets == {0, 600, 1000}

FormAmounts == {0, 400, 600}

\* the values the create form is submitted with, every row rendered
FormCreateForms ==
    [targetAmount : FormTargets,
     milestones   : UNION {[1..n -> FormAmounts] : n \in 1..MaxFormRows}]

FormNext ==
    \/ create.pc = "closed" /\ EditOpen(IssuedSecret)
    \/ EditLoadGoal
    \/ EditLoadMilestones
    \/ EditMilestoneSubNext
    \/ \E v \in FormTargets : EditSetTarget(v)
    \/ \E k \in 1..MaxFormRows, v \in FormAmounts : EditSetRow(k, v)
    \/ EditAddMilestone
    \/ EditRemoveMilestone
    \/ edit.submits = 0 /\ EditSubmit
    \/ EditSubmitRejected
    \/ EditGoalUpdated
    \/ EditGoalUpdateFailed
    \/ \E q \in edit.delQ : EditMilestoneDeleted(q)
    \/ \E q \in edit.delQ : EditMilestoneDeleteFailed(q)
    \/ \E q \in edit.creQ : EditMilestoneCreated(q)
    \/ \E q \in edit.creQ : EditMilestoneCreateFailed(q)
    \/ edit.pc = "closed" /\ CreateOpen
    \/ \E form \in FormCreateForms : create.submits = 0 /\ CreateSubmit(form)
    \/ \E form \in FormCreateForms : CreateSubmitRejected(form)
    \/ CreateGoalCreated
    \/ CreateGoalFailed
    \/ \E q \in create.creQ : CreateMilestoneCreated(q)
    \/ \E q \in create.creQ : CreateMilestoneFailed(q)

SpecForm == Init /\ [][FormNext]_vars

\* A viewer of the goal while the owner saves the edit page as loaded,
\* every request answered.
WatchNext ==
    \/ EditOpen(IssuedSecret)
    \/ EditLoadGoal
    \/ EditLoadMilestones
    \/ EditMilestoneSubNext
    \/ edit.submits = 0 /\ EditSubmit
    \/ EditGoalUpdated
    \/ \E q \in edit.delQ : EditMilestoneDeleted(q)
    \/ \E q \in edit.creQ : EditMilestoneCreated(q)
    \/ GoalPageNext

SpecWatch == Init /\ [][WatchNext]_vars

-----------------------------------------------------------------------------
(* The progress calculator over stored data of every shape the schema      *)
(* allows: donations of both goals and of every status.                    *)

DonationShapes == [payment : {"pi_1", "pi_2", "pi_4"}, status : Statuses]

StoredDonation(k, sh) ==
    [id              |-> k,
     goalId          |-> SessionGoal(sh.payment),
     amount          |-> SessionAmountTotal(sh.payment),
     stripePaymentId |-> sh.payment,
     status          |-> sh.status,
     createdAt       |-> k]

StoredMilestone(k, sh) ==
    [id |-> k, goalId |-> ViewedGoal, targetAmount |-> sh.targetAmount,
     order |-> sh.order]

InitCalc ==
    /\ goals = CreatedGoals
    /\ milestonesDB = CreatedMilestones
    /\ \E n \in 0..MaxDonations : \E f \in [1..n -> DonationShapes] :
          donationsDB = {StoredDonation(k, f[k]) : k \in 1..n}
    /\ nextId = 1
    /\ clock = 1
    /\ inv = [i \in 1..MaxInv |-> Idle]
    /\ edit = NoEdit
    /\ peer = NoEdit
    /\ trip = NoTrip
    /\ vGoal = NoGoal
    /\ vMilestones = <<>>
    /\ vDonations = <<>>
    /\ vLoad = NoLoad
    /\ vSub = NoSub
    /\ checkout = NoCheckout
    /\ create = NoCreate

SpecCalc == InitCalc /\ [][GoalPageNext]_vars

MilestoneShapes == [targetAmount : {500, 750}, order : {0, 1}]

CompletedShapes == [payment : {"pi_1", "pi_2"}, status : {"completed"}]

InitLadder ==
    /\ goals = CreatedGoals
    /\ \E n \in 0..MaxMilestones : \E f \in [1..n -> MilestoneShapes] :
          milestonesDB = {StoredMilestone(k, f[k]) : k \in 1..n}
    /\ \E n \in 0..MaxDonations : \E f \in [1..n -> CompletedShapes] :
          donationsDB = {StoredDonation(k, f[k]) : k \in 1..n}
    /\ nextId = 1
    /\ clock = 1
    /\ inv = [i \in 1..MaxInv |-> Idle]
    /\ edit = NoEdit
    /\ peer = NoEdit
    /\ trip = NoTrip
    /\ vGoal = NoGoal
    /\ vMilestones = <<>>
    /\ vDonations = <<>>
    /\ vLoad = NoLoad
    /\ vSub = NoSub
    /\ checkout = NoCheckout
    /\ create = NoCreate

SpecLadder == InitLadder /\ [][GoalPageNext]_vars


\* The progress bar over goals of target 10.00 and 5.00 and donations of
\* 7.00 and 3.00, completed or pending.
ProgressTargets == {1000, 500}

ProgressShapes == [amount : {700, 300}, status : {"completed", "pending"}]

ProgressDonation(k, sh) ==
    [id              |-> k,
     goalId          |-> ViewedGoal,
     amount          |-> sh.amount,
     stripePaymentId |-> k,
     status          |-> sh.status,
     createdAt       |-> k]

InitProgress ==
    /\ \E t \in ProgressTargets :
          goals = [g \in GoalIds |->
                     [targetAmount |-> t, editPassword |-> Hash(IssuedSecret)]]
    /\ milestonesDB = CreatedMilestones
    /\ \E n \in 0..MaxDonations : \E f \in [1..n -> ProgressShapes] :
          donationsDB = {ProgressDonation(k, f[k]) : k \in 1..n}
    /\ nextId = 1
    /\ clock = 1
    /\ inv = [i \in 1..MaxInv |-> Idle]
    /\ edit = NoEdit
    /\ peer = NoEdit
    /\ trip = NoTrip
    /\ vGoal = NoGoal
    /\ vMilestones = <<>>
    /\ vDonations = <<>>
    /\ vLoad = NoLoad
    /\ vSub = NoSub
    /\ checkout = NoCheckout
    /\ create = NoCreate

SpecProgress == InitProgress /\ [][GoalPageNext]_vars


-----------------------------------------------------------------------------
(* Payment confirmation: what the ledger holds *)

\* what the public goal page of goal g shows once it has fetched the ledger
LedgerViews(g) == SortNewestFirst(DonationItems(g))

LedgerAmounts(g) == {currentAmount(s) : s \in LedgerViews(g)}

\* the deliveries that asked for a Donation of goal g and were answered 200
Confirmed(g) ==
    {i \in 1..MaxInv :
        /\ inv[i].pc = "done"
        /\ inv[i].statusCode = 200
        /\ inv[i].event.type = "checkout.session.completed"
        /\ SessionGoal(inv[i].event.payment_intent) = g}

RECURSIVE SumTotals(_)
SumTotals(I) ==
    IF I = {} THEN 0
    ELSE LET i == CHOOSE j \in I : TRUE
         IN SessionAmountTotal(inv[i].event.payment_intent) + SumTotals(I \ {i})

\* the record was written for a notification that Stripe signed
WrittenForSigned(d) ==
    \E i \in 1..MaxInv : inv[i].created = d.id /\ inv[i].event.sig = "valid"

\* C1: when the handler processes a signed checkout.session.completed event
\* whose payment identifier a signed delivery has already recorded, the
\* delivery adds no Donation record and currentAmount of every goal stays
\* what it was after the first delivery.
C1_SecondDeliveryIsNoOp ==
    [][\A i \in 1..MaxInv :
          ( /\ inv[i].pc = "createDonation"
            /\ inv'[i].pc = "done"
            /\ inv[i].event.sig = "valid"
            /\ \E d \in donationsDB :
                  /\ d.stripePaymentId = inv[i].event.payment_intent
                  /\ WrittenForSigned(d) )
          => ( /\ donationsDB' = donationsDB
               /\ \A g \in GoalIds : LedgerAmounts(g)' = LedgerAmounts(g) )]_vars

\* C2: under every interleaving of the handler's invocations the ledger
\* holds at most one Donation record per payment identifier.
C2_OneRecordPerPayment ==
    \A d1, d2 \in donationsDB :
        ( /\ d1.stripePaymentId = d2.stripePaymentId
          /\ WrittenForSigned(d1)
          /\ WrittenForSigned(d2) ) => d1 = d2

\* C4: the confirmations of goal g answered 200, when their payment
\* identifiers are pairwise distinct, have each their own Donation record;
\* the ledger holds exactly that many records of g and currentAmount is the
\* exact sum of their amounts, whatever the order of the commits.
C4_DistinctConfirmationsAllCounted ==
    \A g \in GoalIds :
        LET ok == Confirmed(g) IN
        (\A i, j \in ok :
            inv[i].event.payment_intent = inv[j].event.payment_intent => i = j)
        => /\ Cardinality({d \in donationsDB : d.goalId = g}) = Cardinality(ok)
           /\ \A i \in ok : \E d \in donationsDB :
                  /\ d.id = inv[i].created
                  /\ d.goalId = g
                  /\ d.stripePaymentId = inv[i].event.payment_intent
                  /\ d.amount = SessionAmountTotal(inv[i].event.payment_intent)
                  /\ d.status = "completed"
           /\ LedgerAmounts(g) = {SumTotals(ok)}

\* C4 witness: two confirmations of goal 1 with distinct payment
\* identifiers were in flight together (the later arrival committed first)
\* and both were answered 200.
C4_Witness ==
    \E i, j \in Confirmed(1) :
        /\ i < j
        /\ inv[i].event.payment_intent # inv[j].event.payment_intent
        /\ inv[j].created < inv[i].created

\* C5: a notification without a signature, or with one that does not verify
\* against the shared secret, creates no Donation record: no record of the
\* ledger was written for such a notification.
C5_UnauthenticatedCreatesNoRecord ==
    \A i \in 1..MaxInv :
        (inv[i].pc # "idle" /\ inv[i].event.sig # "valid")
        => /\ inv[i].created = 0
           /\ ~\E d \in donationsDB : d.id = inv[i].created

-----------------------------------------------------------------------------
(* The progress calculator: claims *)

\* the sequence s without its k-th element
Without(s, k) == SubSeq(s, 1, k - 1) \o SubSeq(s, k + 1, Len(s))

RECURSIVE PrefixTarget(_, _)
\* the cumulative threshold of the k-th milestone of ms
PrefixTarget(ms, k) ==
    IF k = 0 THEN 0 ELSE PrefixTarget(ms, k - 1) + ms[k].targetAmount

\* C3: the currentAmount the page computes from the donations it holds is
\* the sum of the amounts of exactly the held donations that are completed
\* and belong to the viewed goal, and it is the same for every order in
\* which the held donations could have been delivered.
C3_CurrentAmountIsCompletedSum ==
    /\ currentAmount(vDonations) =
           SumAmount({d \in Range(vDonations) :
                         d.status = "completed" /\ d.goalId = ViewedGoal})
    /\ \A s \in Orderings(Range(vDonations)) :
           currentAmount(s) = currentAmount(vDonations)

\* C3 witness: the page has loaded two donations of its goal, one completed
\* and one not, while the ledger also holds a completed donation of the
\* other goal.
C3_Witness ==
    /\ vLoad.pc = "loaded"
    /\ Len(vDonations) = 2
    /\ \E i, j \in DOMAIN vDonations :
          vDonations[i].status = "completed" /\ vDonations[j].status # "completed"
    /\ \E d \in donationsDB : d.goalId # ViewedGoal /\ d.status = "completed"

\* C9: the donation feed lists exactly the held donations with status
\* completed, the donation count is their number, and taking a pending or
\* failed donation out of the held donations changes neither currentAmount
\* nor the count nor the feed.
C9_OnlyCompletedShown ==
    LET done == {d \in Range(vDonations) : d.status = "completed"} IN
    /\ Range(donationFeed(vDonations)) = done
    /\ Len(donationFeed(vDonations)) = Cardinality(done)
    /\ donationCount(vDonations) = Cardinality(done)
    /\ \A k \in DOMAIN vDonations :
          vDonations[k].status # "completed" =>
             LET rest == Without(vDonations, k) IN
             /\ currentAmount(rest) = currentAmount(vDonations)
             /\ donationCount(rest) = donationCount(vDonations)
             /\ donationFeed(rest) = donationFeed(vDonations)

\* C9 witness: the page holds a completed donation and a pending or failed
\* one, delivered by the subscription.
C9_Witness ==
    /\ vLoad.pc = "requested"
    /\ \E i, j \in DOMAIN vDonations :
          /\ vDonations[i].status = "completed"
          /\ vDonations[j].status \in {"pending", "failed"}

\* C10: the page's milestones are in ascending order, and the k-th of them
\* is reported reached if and only if currentAmount is at least the sum of
\* the targetAmounts of the first k; so when the k-th is reported reached,
\* every one before it is.
C10_MilestoneLadder ==
    LET cur == currentAmount(vDonations)
        pos == milestonePositions(vGoal, vMilestones, cur)
    IN  /\ IsByOrder(vMilestones)
        /\ vGoal # NoGoal => Len(pos) = Len(vMilestones)
        /\ \A k \in DOMAIN pos :
              /\ pos[k].reached <=> cur >= PrefixTarget(vMilestones, k)
              /\ pos[k].reached => \A j \in 1..k : pos[j].reached

\* C10 witness: the first milestone is reported reached and the second is
\* not, although currentAmount is at least the second's own amount.
C10_Witness ==
    LET cur == currentAmount(vDonations)
        pos == milestonePositions(vGoal, vMilestones, cur)
    IN  /\ Len(pos) >= 2
        /\ pos[1].reached
        /\ ~pos[2].reached
        /\ cur >= pos[2].targetAmount

-----------------------------------------------------------------------------
(* EditGoalPage: claims *)

\* the stored milestones of goal g as (order, targetAmount) pairs
StoredRows(items) == {<<m.order, m.targetAmount>> : m \in items}

\* the rows onSubmit was given, as (order, targetAmount) pairs
SubmittedRows(data) == {<<k - 1, data.milestones[k]>> : k \in DOMAIN data.milestones}

\* C6: a session opened with a secret other than the one issued at goal
\* creation never mutates: it has sent no Goal.update, Milestone.delete or
\* Milestone.create, it has none in flight, it is loading or has left, and
\* the stored goal and milestones are as they were created.
C6_WrongSecretNeverMutates ==
    (edit.pc # "closed" /\ edit.password # IssuedSecret)
    => /\ ~edit.wrote
       /\ edit.pc \in {"loadGoal", "left"}
       /\ edit.delQ = {} /\ edit.creQ = {}
       /\ goals = CreatedGoals
       /\ milestonesDB = CreatedMilestones

\* C6 witness: the comparison of a wrong secret has failed and the session
\* has left the page.
C6_Witness == edit.pc = "left" /\ edit.password # IssuedSecret

\* C7: once a save has finished, with "Saved!" or with an error, and none of
\* its requests is in flight any more, the stored milestones of the goal are
\* exactly the list stored before the save or exactly the submitted list.
C7_ReplacementAllOrNothing ==
    (edit.outcome \in {"saved", "error"} /\ edit.delQ = {} /\ edit.creQ = {})
    => LET now == MilestoneItems(EditedGoal) IN
       \/ now = edit.before
       \/ /\ StoredRows(now) = SubmittedRows(edit.data)
          /\ Cardinality(now) = Len(edit.data.milestones)

-----------------------------------------------------------------------------
(* The progress bar: claims *)

\* C11: the progressPercent the page shows is min(100, 100 * currentAmount /
\* goal.targetAmount): it is never above 100, it is 100 * currentAmount /
\* targetAmount while currentAmount is at most the target and 100 from the
\* target on; for target 1000 it is 70 when the completed donations are
\* one of 700, and 100 when they are one of 700 and one of 300.
C11_ProgressPercentCapped ==
    LET cur  == currentAmount(vDonations)
        done == CompletedOnly(vDonations)
        p    == progressPercent(vGoal, cur)
    IN  vGoal # NoGoal =>
          /\ RatLE(Whole(0), p) /\ RatLE(p, Whole(100))
          /\ cur <= vGoal.targetAmount =>
                 p.num * vGoal.targetAmount = 100 * cur * p.den
          /\ cur >= vGoal.targetAmount => RatEq(p, Whole(100))
          /\ ( /\ vGoal.targetAmount = 1000
               /\ Len(done) = 1
               /\ done[1].amount = 700 ) => RatEq(p, Whole(70))
          /\ ( /\ vGoal.targetAmount = 1000
               /\ Len(done) = 2
               /\ {done[1].amount, done[2].amount} = {700, 300} )
             => RatEq(p, Whole(100))

\* C11 witness: the page shows a goal of target 1000 whose completed
\* donations sum to more than the target, beside a pending one.
C11_Witness ==
    /\ vGoal # NoGoal
    /\ vGoal.targetAmount = 1000
    /\ currentAmount(vDonations) > vGoal.targetAmount
    /\ \E k \in DOMAIN vDonations : vDonations[k].status = "pending"

\* C12: every marker position the page computes for a milestone lies in
\* [0, 100], also when the stored milestone amounts sum to more than the
\* stored goal target.
C12_MarkerPositionInRange ==
    LET pos == milestonePositions(vGoal, vMilestones, currentAmount(vDonations))
    IN  \A k \in DOMAIN pos :
            RatLE(Whole(0), pos[k].position) /\ RatLE(pos[k].position, Whole(100))

-----------------------------------------------------------------------------
(* Payment confirmation: event types *)

\* C13: a notification of any type other than checkout.session.completed
\* leaves the ledger unchanged and is finished at once; when it carries the
\* signature header it is answered 200.  Every record added to the ledger
\* was created by an invocation handling a checkout.session.completed event.
C13_OnlyCompletedEventCreates ==
    [][ /\ \A i \in 1..MaxInv :
             ( /\ inv[i].pc = "idle"
               /\ inv'[i].pc # "idle"
               /\ inv'[i].event.type # "checkout.session.completed" )
             => /\ donationsDB' = donationsDB
                /\ inv'[i].pc = "done"
                /\ inv'[i].created = 0
                /\ SignatureAccepted(inv'[i].event) => inv'[i].statusCode = 200
        /\ \A d \in donationsDB' \ donationsDB :
             \E i \in 1..MaxInv :
                 /\ inv'[i].created = d.id
                 /\ inv'[i].event.type = "checkout.session.completed" ]_vars

\* C13 witness: a payment_intent.created notification was answered 200 and
\* created nothing, after another delivery had stored a record.
C13_Witness ==
    \E i, j \in 1..MaxInv :
        /\ i > j
        /\ inv[j].created # 0
        /\ inv[i].pc = "done"
        /\ inv[i].event.type = "payment_intent.created"
        /\ inv[i].statusCode = 200
        /\ inv[i].created = 0
        /\ Cardinality(donationsDB) = 1

-----------------------------------------------------------------------------
(* The live page: claims *)

ViewerConverged ==
    /\ vDonations \in SortNewestFirst(DonationItems(ViewedGoal))
    /\ vGoal = goals[ViewedGoal]
    /\ vMilestones \in SortByOrder(MilestoneItems(ViewedGoal))

\* C16: a subscribed viewer whose requests are answered and whose
\* subscription messages are delivered eventually shows, and from then on
\* keeps showing, the donations, currentAmount and reached-states of the
\* committed ledger, once the ledger has stopped changing.
C16_ViewerConverges == <>[]ViewerConverged

-----------------------------------------------------------------------------
(* Checkout initiation: claims *)

\* C17: a checkout session exists only when the account the handler
\* retrieved had charges enabled and details submitted; for an account that
\* is not fully activated no session is created, and the answer is the 400
\* "Account onboarding incomplete" carrying the onboarding link (or the 500
\* of the catch block when Stripe refused to create the link).
C17_NoCheckoutBeforeActivation ==
    /\ checkout.sessions # {} =>
          /\ checkout.account.retrieved
          /\ checkout.account.charges_enabled
          /\ checkout.account.details_submitted
    /\ checkout.pc = "createSession" =>
          /\ checkout.account.retrieved
          /\ checkout.account.charges_enabled
          /\ checkout.account.details_submitted
    /\ ( /\ checkout.pc \in {"responded", "done"}
         /\ checkout.account.retrieved
         /\ ~(checkout.account.charges_enabled /\ checkout.account.details_submitted) )
       => /\ checkout.sessions = {}
          /\ checkout.url = ""
          /\ \/ /\ checkout.statusCode = 400
                /\ checkout.error = "Account onboarding incomplete"
                /\ checkout.onboardingUrl # ""
             \/ /\ checkout.statusCode = 500
                /\ checkout.links = 0
          /\ checkout.location # "checkout"

\* C17 witness: for an account with charges enabled but details not
\* submitted the donor was sent to the onboarding link and no session exists.
C17_Witness ==
    /\ checkout.pc = "done"
    /\ checkout.account.retrieved
    /\ checkout.account.charges_enabled
    /\ ~checkout.account.details_submitted
    /\ checkout.location = "onboarding"
    /\ checkout.sessions = {}

-----------------------------------------------------------------------------
(* The ledger under every operation of the system: claims *)

\* C18: no step of the system updates or deletes a stored Donation: every
\* record stored before a step is stored, unchanged, after it, so the
\* completed donations of every goal only grow.
C18_LedgerAppendOnly ==
    [][ /\ donationsDB \subseteq donationsDB'
        /\ \A g \in GoalIds :
              {d \in DonationItems(g) : d.status = "completed"}
                 \subseteq {d \in DonationItems(g)' : d.status = "completed"} ]_vars

\* C18 witness: the edit page has replaced the goal's milestones and a
\* later confirmation has been added to a ledger that held one already.
C18_Witness ==
    /\ edit.outcome = "saved"
    /\ Cardinality(DonationItems(EditedGoal)) = 2
    /\ \E i \in 1..MaxInv, m \in MilestoneItems(EditedGoal) :
          m \notin CreatedMilestones /\ inv[i].created > m.id

\* C19: the ledger changes only in the step in which a webhook invocation's
\* createDonation commits, by exactly the one record that invocation
\* created; the edit page, the create page and the checkout (handleDonate
\* and its handler) take no part in such a step, and every stored record
\* has status completed.
C19_WebhookSoleWriter ==
    [][ /\ donationsDB' # donationsDB =>
              /\ \E i \in 1..MaxInv :
                    /\ inv[i].pc = "createDonation"
                    /\ inv'[i].pc = "done"
                    /\ \E d \in donationsDB' :
                          /\ donationsDB' = donationsDB \cup {d}
                          /\ d.id = inv'[i].created
              /\ edit' = edit
              /\ create' = create
              /\ checkout' = checkout
        /\ \A d \in donationsDB' : d.status = "completed" ]_vars

\* C19 witness: a checkout session was created for a donor, a goal was
\* created or edited, and the ledger holds exactly the one record a webhook
\* invocation wrote.
C19_Witness ==
    /\ checkout.sessions # {}
    /\ Cardinality(donationsDB) = 1
    /\ \E i \in 1..MaxInv, d \in donationsDB :
          inv[i].created = d.id /\ d.status = "completed"

\* C20: a flow that ended in an error has written nothing or one record:
\* a webhook invocation answered 400 or 500 created no Donation, a checkout
\* answered 400 or 500 created no session, and a goal creation that ended
\* with "Creation Failed", once none of its requests is in flight, has
\* stored at most one new record (never a goal with some of its milestones).
C20_FailureWritesNothingOrOne ==
    /\ \A i \in 1..MaxInv :
          (inv[i].pc = "done" /\ inv[i].statusCode \in {400, 500})
          => inv[i].created = 0
    /\ (checkout.pc \in {"responded", "done"} /\ checkout.statusCode \in {400, 500})
          => checkout.sessions = {}
    /\ (create.outcome = "error" /\ create.creQ = {})
          => Cardinality(DOMAIN goals \ create.beforeGoals)
               + Cardinality(milestonesDB \ create.beforeMs) <= 1

-----------------------------------------------------------------------------
(* The donation feed: claims *)

\* C21: the feed the page displays is ordered newest first: of any two
\* displayed donations the one with the later createdAt stands before the
\* other, after loadGoal and after every message of the subscription; the
\* list a pending loadGoal is about to set is ordered the same way.
C21_FeedNewestFirst ==
    LET feed == donationFeed(vDonations) IN
    /\ \A i, j \in DOMAIN feed :
          feed[i].createdAt > feed[j].createdAt => i < j
    /\ IsNewestFirst(vDonations)
    /\ vLoad.pc = "fetched" => IsNewestFirst(vLoad.donations)

\* C21 witness: the subscription has delivered a second donation with a
\* later createdAt and the feed shows it first.
C21_Witness ==
    LET feed == donationFeed(vDonations) IN
    /\ vSub.donationsSynced
    /\ Len(feed) = 2
    /\ feed[1].createdAt > feed[2].createdAt
    /\ feed[1].id > feed[2].id

-----------------------------------------------------------------------------
(* Milestone order values: claims *)

\* the order values of the items are pairwise distinct
DistinctOrders(items) ==
    \A m1, m2 \in items : m1.order = m2.order => m1 = m2

\* the order values of the items are exactly 0..n-1
ContiguousOrders(items) ==
    {m.order : m \in items} = 0..(Cardinality(items) - 1)

\* every save of the two sessions has ended and none of their requests is
\* in flight
SavesFinished ==
    /\ edit.outcome = "saved" /\ edit.delQ = {} /\ edit.creQ = {}
    /\ peer.outcome = "saved" /\ peer.delQ = {} /\ peer.creQ = {}

\* C22: in every state the order values of the stored milestones of a goal
\* are pairwise distinct, and once the replacements have completed they are
\* 0..n-1 for the n stored milestones.
C22_OrdersDistinctAndContiguous ==
    \A g \in DOMAIN goals :
        /\ DistinctOrders(MilestoneItems(g))
        /\ SavesFinished => ContiguousOrders(MilestoneItems(g))

\* the stored milestones of the edited goal are exactly the rows of data,
\* each stored once and none of them a milestone stored at creation
IsSavedList(now, data) ==
    /\ StoredRows(now) = SubmittedRows(data)
    /\ Cardinality(now) = Len(data.milestones)
    /\ now \cap CreatedMilestones = {}

\* C25: once two sessions that edit the same goal have both finished their
\* saves, the goal's stored milestones are exactly the list of one of the
\* two saves: never milestones of both, never one of the list stored before.
C25_ConcurrentSavesLeaveOneList ==
    SavesFinished =>
       LET now == MilestoneItems(EditedGoal) IN
       \/ IsSavedList(now, edit.data)
       \/ IsSavedList(now, peer.data)

-----------------------------------------------------------------------------
(* The forms: claims *)

\* C23: every stored goal has a target above 0, and so has every goal a
\* Goal.create or Goal.update in flight is about to store, so the quotient
\* of the progress computation has a positive denominator; a submit the
\* schema rejects (a target of 0 among them) sends no request and writes
\* nothing.
C23_StoredTargetPositive ==
    /\ \A g \in DOMAIN goals : goals[g].targetAmount > 0
    /\ edit.pc = "updateGoal" => edit.data.targetAmount > 0
    /\ create.pc = "createGoal" => create.data.targetAmount > 0
    /\ (create.outcome = "invalid" /\ create.submits = 0) =>
          /\ DOMAIN goals = DOMAIN CreatedGoals
          /\ milestonesDB = CreatedMilestones
          /\ create.pc = "ready" /\ create.creQ = {}
    /\ (edit.outcome = "invalid" /\ edit.submits = 0) =>
          /\ goals = CreatedGoals
          /\ milestonesDB = CreatedMilestones
          /\ edit.pc = "ready" /\ ~edit.wrote
          /\ edit.delQ = {} /\ edit.creQ = {}

\* C23 witness: the edit form was submitted with a target of 0 and rows
\* that sum to 0, which only the schema turns away, and was rejected.
C23_Witness ==
    /\ edit.outcome = "invalid"
    /\ edit.form.targetAmount = 0
    /\ totalMilestoneAmount(edit) = 0
    /\ edit.msCount >= 1
    /\ RenderedFilled(edit)

\* C27: a save of the edit page that has passed the mismatch check was
\* given, as the rows to create, rows that sum to the submitted target
\* within 0.01, and once it has ended with "Saved!" the stored milestones
\* of the goal sum to the stored target within 0.01.
C27_WrittenRowsAreValidatedRows ==
    /\ edit.outcome \in {"saving", "saved"} =>
          Abs(RunningTotal(edit.data, Len(edit.data.milestones))
                 - edit.data.targetAmount) <= 1
    /\ (edit.outcome = "saved" /\ edit.delQ = {} /\ edit.creQ = {}) =>
          Abs(SumAmount({[id |-> m.id, amount |-> m.targetAmount] :
                            m \in MilestoneItems(EditedGoal)})
                 - goals[EditedGoal].targetAmount) <= 1

-----------------------------------------------------------------------------
(* Independence of goals: claims *)

\* what a page of goal g derives from the committed goal, milestones and
\* ledger: the progress percentage and the milestones with their
\* reached-states
LedgerProgress(g) == {progressPercent(goals[g], c) : c \in LedgerAmounts(g)}

LedgerReached(g) ==
    {milestonePositions(goals[g], ms, c) :
        ms \in SortByOrder(MilestoneItems(g)), c \in LedgerAmounts(g)}

\* C24: the step in which the confirmation of a payment to goal G commits
\* adds records of goalId G only and leaves, for every other goal, the
\* stored donations, currentAmount, progressPercent and the milestones'
\* reached-states as they were; a viewer of another goal keeps what it
\* shows and its subscription has nothing new to deliver.
C24_GoalsIndependent ==
    [][\A i \in 1..MaxInv :
          (inv[i].pc = "createDonation" /\ inv'[i].created # 0) =>
             LET G == SessionGoal(inv[i].event.payment_intent) IN
             /\ \A d \in donationsDB' \ donationsDB : d.goalId = G
             /\ \A g \in GoalIds \ {G} :
                   /\ DonationItems(g)' = DonationItems(g)
                   /\ LedgerAmounts(g)' = LedgerAmounts(g)
                   /\ LedgerProgress(g)' = LedgerProgress(g)
                   /\ LedgerReached(g)' = LedgerReached(g)
             /\ G # ViewedGoal =>
                   /\ viewVars' = viewVars
                   /\ vSub.donationsSynced => DonationSubItems' = DonationSubItems]_vars

\* C24 witness: a viewer of goal 1 shows a donation, with the first
\* milestone reached, after a confirmation for goal 2 has committed.
C24_Witness ==
    /\ \E d \in donationsDB : d.goalId # ViewedGoal
    /\ vSub.donationsSynced
    /\ vLoad.pc = "loaded"
    /\ Len(vDonations) = 1
    /\ currentAmount(vDonations) = 1250
    /\ \E p \in LedgerReached(ViewedGoal) : Len(p) = 2 /\ p[1].reached

-----------------------------------------------------------------------------
(* A viewer during a milestone replacement: claims *)

\* the page shows the goal and the milestones as they were created
ShowsOldList ==
    /\ vGoal = CreatedGoals[ViewedGoal]
    /\ Range(vMilestones) = CreatedMilestones

\* the page shows the submitted target with exactly the submitted rows
ShowsNewList ==
    /\ edit.outcome \in {"saving", "saved", "error"}
    /\ vGoal.targetAmount = edit.data.targetAmount
    /\ IsSavedList(Range(vMilestones), edit.data)

\* C26: what a viewer of the goal displays during and after the first
\* replacement of its milestones is the old target with the old list or the
\* new target with the new list.
C26_ViewerSeesOldOrNew ==
    (vLoad.pc = "loaded" /\ edit.submits <= 1 /\ ViewedGoal = EditedGoal)
    => ShowsOldList \/ ShowsNewList

-----------------------------------------------------------------------------
(* Monotonic progress: claims *)

\* C28: while the goal's target and milestones are not edited, no step
\* lowers the currentAmount the committed ledger gives for a goal, and a
\* milestone that the committed ledger reports reached is reported reached
\* after the step.
C28_ProgressMonotonic ==
    [][\A g \in GoalIds :
          (goals' = goals /\ milestonesDB' = milestonesDB) =>
             /\ \A c \in LedgerAmounts(g), d \in LedgerAmounts(g)' : c <= d
             /\ \A p \in LedgerReached(g), q \in LedgerReached(g)' :
                   /\ Len(q) = Len(p)
                   /\ \A k \in DOMAIN p : p[k].reached => q[k].reached]_vars

\* C28 witness: the ledger of goal 1 reported both milestones reached with
\* its first donation, and a second donation has been added since.
C28_Witness ==
    \E d1, d2 \in DonationItems(ViewedGoal) :
        /\ d1.id < d2.id
        /\ d1.amount = 1250
        /\ d2.amount = 500
        /\ \A p \in LedgerReached(ViewedGoal) :
              Len(p) = 2 /\ p[1].reached /\ p[2].reached

-----------------------------------------------------------------------------
(* The amount round trip: claims *)

\* C29: for an amount entered in whole cents, the unit_amount of the
\* checkout session and the amount_total Stripe reports are that many
\* cents, and the amount the webhook records is the number the donor's
\* text stands for, so the ledger grows by exactly the amount paid.
C29_AmountRoundTrip ==
    /\ trip.pc \in {"session", "paid", "recorded"} =>
          trip.unit_amount = trip.entered
    /\ trip.pc \in {"paid", "recorded"} => trip.amount_total = trip.entered
    /\ trip.pc = "recorded" =>
          /\ trip.recorded = ParseFloat(trip.entered)
          /\ trip.recorded = trip.amount

\* C29 witness: 1.29 was entered, its product with 100 fell just below
\* 129, and the donation was recorded.
C29_Witness ==
    /\ trip.pc = "recorded"
    /\ trip.entered = 129
    /\ trip.product < 129 * Sub

-----------------------------------------------------------------------------
(* Notifications without the signature header: claims *)

\* C30: a notification without the stripe-signature header is answered 400
\* at once, whatever its type and whether or not its body parses; it never
\* asks for a createDonation and no record of the ledger was written for it.
C30_MissingHeaderRejected ==
    \A i \in 1..MaxInv :
        (inv[i].pc # "idle" /\ inv[i].event.sig = "none")
        => /\ inv[i].pc = "done"
           /\ inv[i].statusCode = 400
           /\ inv[i].created = 0
           /\ \A d \in donationsDB :
                 \E j \in 1..MaxInv : j # i /\ inv[j].created = d.id

\* C30 witness: a notification without the header whose body is not JSON
\* and one for a completed checkout were both answered 400, and the ledger
\* is empty.
C30_Witness ==
    /\ donationsDB = {}
    /\ \E i, j \in 1..MaxInv :
          /\ inv[i].event \in UnparsableEvents
          /\ inv[i].event.sig = "none"
          /\ inv[i].statusCode = 400
          /\ inv[j].event.sig = "none"
          /\ inv[j].event.type = "checkout.session.completed"
          /\ inv[j].statusCode = 400

====
